---- MODULE Spec2Model ----
(***************************************************************************)
(* rlox: scanner, single-pass expression compiler, bytecode chunk and      *)
(* stack VM, driven by the REPL loop of main.rs.                           *)
(*                                                                         *)
(* Source text is a sequence of one-character strings.  f64 numbers are    *)
(* modelled by integers where the value is an integer the model tracks     *)
(* exactly; every other f64 (a fractional literal, an inexact quotient,    *)
(* an infinity or NaN) is the untracked number "numx", whose comparisons   *)
(* may come out either way.  Signed zero is not distinguished.             *)
(***************************************************************************)
EXTENDS Integers, Sequences, FiniteSets, TLC

\* ------------------------------------------------------------------ bounds
MaxLit == 3
MaxSrcLen == 4
MaxWrites == 3
MaxScanLen == 4
MaxEofCalls == 2

\* -------------------------------------------------------------- characters
NoChar == ""
NL == "\n"
QUOTE == "\""

Digits == {"0", "1", "2", "3", "4", "5", "6", "7", "8", "9"}

Alphas ==
  {"a", "b", "c", "d", "e", "f", "g", "h", "i", "j", "k", "l", "m",
   "n", "o", "p", "q", "r", "s", "t", "u", "v", "w", "x", "y", "z",
   "A", "B", "C", "D", "E", "F", "G", "H", "I", "J", "K", "L", "M",
   "N", "O", "P", "Q", "R", "S", "T", "U", "V", "W", "X", "Y", "Z", "_"}

is_digit(c) == c \in Digits

is_alpha(c) == c \in Alphas

is_ident(c) == is_alpha(c) \/ is_digit(c)

\* ------------------------------------------------------ scanner.rs: Source
peek(text, cur) == IF cur < Len(text) THEN text[cur + 1] ELSE NoChar

peek_peek(text, cur) == IF cur + 1 < Len(text) THEN text[cur + 2] ELSE NoChar

\* Source::next advancing also at the end of the text
next_pos_unchecked(text, cur) == cur + 1

\* Source::next: the position after consuming one byte, if there is one
next_pos(text, cur) == IF cur < Len(text) THEN cur + 1 ELSE cur

RECURSIVE skip_while_in(_, _, _)
skip_while_in(text, cur, S) ==
  IF cur < Len(text) /\ text[cur + 1] \in S
  THEN skip_while_in(text, cur + 1, S)
  ELSE cur

RECURSIVE skip_while_not(_, _, _)
skip_while_not(text, cur, c) ==
  IF cur < Len(text) /\ text[cur + 1] # c
  THEN skip_while_not(text, cur + 1, c)
  ELSE cur

\* newline bytes in text[from+1 .. to]
Newlines(text, from, to) == Cardinality({i \in (from + 1)..to : text[i] = NL})

\* ----------------------------------------------------- scanner.rs: Scanner
Token(ty, start, end, line) ==
  [ty |-> ty, start |-> start, end |-> end, line |-> line]

TokenDefault == Token("Eof", 0, 0, 1)

ScannerNew == [cur |-> 0, start |-> 0, line |-> 1]

token_text(text, token) == SubSeq(text, token.start + 1, token.end)

make_token(sc, ty) == Token(ty, sc.start, sc.cur, sc.line)

RECURSIVE skip_whitespace(_, _)
RECURSIVE skip_comment(_, _, _)

skip_whitespace(text, sc) ==
  skip_comment(text, sc, skip_while_in(text, sc.cur, {" ", "\r", "\t", NL}))

\* the rest of the loop of skip_whitespace, once the blanks up to c1 have
\* been skipped
skip_comment(text, sc, c1) ==
  IF peek(text, c1) = "/" /\ peek_peek(text, c1) = "/"
  THEN skip_whitespace(text,
         [sc EXCEPT !.cur = next_pos(text, skip_while_not(text, c1, NL)),
                    !.line = sc.line + Newlines(text, sc.cur, c1)])
  ELSE [cur |-> c1, start |-> c1, line |-> sc.line + Newlines(text, sc.cur, c1)]

\* Scanner::matches
matches(text, sc, expected) ==
  IF peek(text, sc.cur) = expected THEN [sc EXCEPT !.cur = sc.cur + 1] ELSE sc

ScanOk(sc, ty) == [ok |-> TRUE, token |-> make_token(sc, ty), sc |-> sc,
                   err |-> "", ch |-> NoChar]

ScanErr(sc, msg, c) == [ok |-> FALSE, token |-> TokenDefault, sc |-> sc,
                        err |-> msg, ch |-> c]

\* Scanner::string, entered after the opening quote has been consumed
string_end(text, s1) ==
  IF peek(text, s1.cur) = NoChar
  THEN ScanErr(s1, "unterminated string", NoChar)
  ELSE ScanOk([s1 EXCEPT !.cur = s1.cur + 1], "String")

string_body(text, sc, c1) ==
  string_end(text, [sc EXCEPT !.cur = c1,
                              !.line = sc.line + Newlines(text, sc.cur, c1)])

string(text, sc) == string_body(text, sc, skip_while_not(text, sc.cur, QUOTE))

\* Scanner::number without the fractional part
number_integral(text, sc, c1) == ScanOk([sc EXCEPT !.cur = c1], "Number")

\* Scanner::number, entered after the first digit has been consumed
number_fraction(text, sc, c1) ==
  IF peek(text, c1) = "." /\ is_digit(peek_peek(text, c1))
  THEN ScanOk([sc EXCEPT !.cur = skip_while_in(text, c1 + 1, Digits)], "Number")
  ELSE ScanOk([sc EXCEPT !.cur = c1], "Number")

number_token(text, sc) ==
  number_fraction(text, sc, skip_while_in(text, sc.cur, Digits))

get_ident(text, sc) ==
  ScanOk([sc EXCEPT !.cur = skip_while_in(text, sc.cur, Alphas \cup Digits)],
         "Identifier")

\* the number of leading bytes at cur that match the keyword suffix
RECURSIVE match_len(_, _, _, _)
match_len(text, cur, suffix, k) ==
  IF k < Len(suffix) /\ cur < Len(text) /\ text[cur + 1] = suffix[k + 1]
  THEN match_len(text, cur + 1, suffix, k + 1)
  ELSE k

\* check_keyword without the look at the byte after the keyword
keyword_hasty(text, s1, n, suffix, ty) ==
  IF n = Len(suffix) THEN ScanOk(s1, ty) ELSE get_ident(text, s1)

\* the decision of check_keyword, n bytes of the suffix having matched
keyword_or_ident(text, s1, n, suffix, ty) ==
  IF n = Len(suffix) /\ ~is_ident(peek(text, s1.cur))
  THEN ScanOk(s1, ty)
  ELSE get_ident(text, s1)

keyword_from(text, sc, idx, n, suffix, ty) ==
  keyword_or_ident(text, [sc EXCEPT !.cur = idx + n], n, suffix, ty)

keyword_at(text, sc, idx, suffix, ty) ==
  keyword_from(text, sc, idx, match_len(text, idx, suffix, 0), suffix, ty)

check_keyword(text, sc, skip, suffix, ty) ==
  keyword_at(text, sc, IF skip THEN next_pos(text, sc.cur) ELSE sc.cur,
             suffix, ty)

\* Scanner::alpha for a word that starts with f and goes on with byte p
alpha_f(text, sc, p) ==
  CASE p = "a" -> check_keyword(text, sc, TRUE, <<"l", "s", "e">>, "False")
    [] p = "o" -> check_keyword(text, sc, TRUE, <<"r">>, "For")
    [] p = "u" -> check_keyword(text, sc, TRUE, <<"n">>, "Fun")
    [] p = NoChar -> ScanOk(sc, "Identifier")
    [] OTHER -> get_ident(text, sc)

\* Scanner::alpha for a word that starts with t and goes on with byte p
alpha_t(text, sc, p) ==
  CASE p = "h" -> check_keyword(text, sc, TRUE, <<"i", "s">>, "This")
    [] p = "r" -> check_keyword(text, sc, TRUE, <<"u", "e">>, "True")
    [] p = NoChar -> ScanOk(sc, "Identifier")
    [] OTHER -> get_ident(text, sc)

\* Scanner::alpha, entered after the first byte c has been consumed
alpha(text, sc, c) ==
  CASE c = "a" -> check_keyword(text, sc, FALSE, <<"n", "d">>, "And")
    [] c = "c" -> check_keyword(text, sc, FALSE, <<"l", "a", "s", "s">>, "Class")
    [] c = "e" -> check_keyword(text, sc, FALSE, <<"l", "s", "e">>, "Else")
    [] c = "i" -> check_keyword(text, sc, FALSE, <<"f">>, "If")
    [] c = "n" -> check_keyword(text, sc, FALSE, <<"i", "l">>, "Nil")
    [] c = "o" -> check_keyword(text, sc, FALSE, <<"r">>, "Or")
    [] c = "p" -> check_keyword(text, sc, FALSE, <<"r", "i", "n", "t">>, "Print")
    [] c = "r" -> check_keyword(text, sc, FALSE,
                                <<"e", "t", "u", "r", "n">>, "Return")
    [] c = "s" -> check_keyword(text, sc, FALSE, <<"u", "p", "e", "r">>, "Super")
    [] c = "v" -> check_keyword(text, sc, FALSE, <<"a", "r">>, "Var")
    [] c = "w" -> check_keyword(text, sc, FALSE, <<"h", "i", "l", "e">>, "While")
    [] c = "f" -> alpha_f(text, sc, peek(text, sc.cur))
    [] c = "t" -> alpha_t(text, sc, peek(text, sc.cur))
    [] OTHER -> get_ident(text, sc)

\* one- or two-character operator, decided by one byte of lookahead
TwoChar(text, sc, two, one) ==
  IF peek(text, sc.cur) = "=" THEN ScanOk(matches(text, sc, "="), two)
  ELSE ScanOk(sc, one)

\* the match of scan_token on byte c: ws is the scanner in front of c, sc the
\* scanner after source.next(), which has consumed c if there is a c
scan_char(text, ws, sc, c) ==
      CASE c = NoChar -> ScanOk(sc, "Eof")
        [] is_digit(c) -> number_token(text, sc)
        [] is_alpha(c) -> alpha(text, sc, c)
        [] c = "(" -> ScanOk(sc, "LeftParen")
        [] c = ")" -> ScanOk(sc, "RightParen")
        [] c = "{" -> ScanOk(sc, "LeftBrace")
        [] c = "}" -> ScanOk(sc, "RightBrace")
        [] c = ";" -> ScanOk(sc, "Semicolon")
        [] c = "," -> ScanOk(sc, "Comma")
        [] c = "." -> ScanOk(sc, "Dot")
        [] c = "-" -> ScanOk(sc, "Minus")
        [] c = "+" -> ScanOk(sc, "Plus")
        [] c = "/" -> ScanOk(sc, "Slash")
        [] c = "*" -> ScanOk(sc, "Star")
        [] c = "!" -> TwoChar(text, sc, "BangEqual", "Bang")
        [] c = "=" -> TwoChar(text, sc, "EqualEqual", "Equal")
        [] c = "<" -> TwoChar(text, sc, "LessEqual", "Less")
        [] c = ">" -> TwoChar(text, sc, "GreaterEqual", "Greater")
        [] c = QUOTE -> string(text, sc)
        [] OTHER -> ScanErr(sc, "unexpected character", c)

scan_after_ws(text, ws) ==
  scan_char(text, ws, [ws EXCEPT !.cur = next_pos(text, ws.cur)],
            peek(text, ws.cur))

scan_token(text, sc0) == scan_after_ws(text, skip_whitespace(text, sc0))

\* ------------------------------------------------------------ lib.rs: Value
Nil == [t |-> "nil", n |-> 0, b |-> FALSE, s |-> <<>>]

Boolean(v) == [t |-> "bool", n |-> 0, b |-> v, s |-> <<>>]

Number(v) == [t |-> "num", n |-> v, b |-> FALSE, s |-> <<>>]

\* an f64 the model does not track exactly
NumberX == [t |-> "numx", n |-> 0, b |-> FALSE, s |-> <<>>]

\* a heap Object with a String payload
Object(text) == [t |-> "obj", n |-> 0, b |-> FALSE, s |-> text]

IsNumber(v) == v.t \in {"num", "numx"}

\* a conversion to bool under which the number zero is false as well
truthy_zero_false(v) ==
  ~(v.t = "nil" \/ (v.t = "bool" /\ v.b = FALSE) \/ (v.t = "num" /\ v.n = 0))

\* impl From<Value> for bool
truthy(v) == ~(v.t = "nil" \/ (v.t = "bool" /\ v.b = FALSE))

\* decimal digits of a natural number, most significant first
RECURSIVE NatDigits(_)
NatDigits(k) ==
  LET d == <<"0", "1", "2", "3", "4", "5", "6", "7", "8", "9">>[(k % 10) + 1]
  IN  IF k < 10 THEN <<d>> ELSE NatDigits(k \div 10) \o <<d>>

\* impl Display for Value (and for Object and Payload in vm.rs)
Display(v) ==
  CASE v.t = "nil" -> <<"n", "i", "l">>
    [] v.t = "bool" -> IF v.b THEN <<"t", "r", "u", "e">>
                              ELSE <<"f", "a", "l", "s", "e">>
    [] v.t = "num" -> IF v.n < 0 THEN <<"-">> \o NatDigits(-v.n)
                                 ELSE NatDigits(v.n)
    [] v.t = "numx" -> <<"?">>
    [] v.t = "obj" -> <<QUOTE>> \o v.s \o <<QUOTE>>

\* --------------------------------------------------------- code.rs: opcodes
Ops == <<"Nil", "True", "False", "Return", "Not", "Negate", "Equal",
         "Greater", "Less", "Add", "Subtract", "Multiply", "Divide",
         "Constant", "Extend", "Unknown">>

\* `op as u8`
OpByte(op) == CHOOSE i \in 0..15 : Ops[i + 1] = op

\* Op::from_primitive: any unrecognised byte is Unknown
from_primitive(byte) == IF byte < 15 THEN Ops[byte + 1] ELSE "Unknown"

MAX_CONSTS == 16777215

\* ----------------------------------------------------------- code.rs: Chunk
\* hidden is the number of pool entries in front of `constants` whose values
\* the model does not keep: the pool holds hidden + Len(constants) entries
ChunkNew == [code |-> <<>>, constants |-> <<>>, lines |-> <<>>,
             current_line |-> 1, hidden |-> 0]

\* self.constants.len()
pool_len(chunk) == chunk.hidden + Len(chunk.constants)

\* Chunk::new_line / LineMap::new_line
new_line(chunk, line) == [chunk EXCEPT !.current_line = line]

\* push_op recording a line for the final code unit of an instruction only
push_op_per_instruction(chunk, op, arg) ==
  [chunk EXCEPT !.code = Append(@, OpByte(op) * 256 + arg),
                !.lines = IF op = "Extend" THEN @
                          ELSE Append(@, chunk.current_line)]

\* Chunk::push_op with LineMap::add_op
push_op(chunk, op, arg) ==
  [chunk EXCEPT !.code = Append(@, OpByte(op) * 256 + arg),
                !.lines = Append(@, chunk.current_line)]

write_op(chunk, op) == push_op(chunk, op, 0)

\* 32 - leading_zeros(x)
RECURSIVE BitLen(_)
BitLen(x) == IF x = 0 THEN 0 ELSE 1 + BitLen(x \div 2)

RECURSIVE push_extend(_, _, _)
push_extend(chunk, bytes, from) ==
  IF from > Len(bytes) THEN chunk
  ELSE push_extend(push_op(chunk, "Extend", bytes[from]), bytes, from + 1)

\* the bytes of a u32, least significant first
to_le_bytes(x) ==
  <<x % 256, (x \div 256) % 256, (x \div 65536) % 256, (x \div 16777216) % 256>>

\* u32::to_be_bytes
to_be_bytes(x) ==
  <<(x \div 16777216) % 256, (x \div 65536) % 256, (x \div 256) % 256, x % 256>>

\* the Extend code units of write_op_arg for the operand bytes above the low
\* one
write_extend(chunk, ext_arg) ==
  push_extend(chunk, to_be_bytes(ext_arg), (3 - (BitLen(ext_arg) \div 8)) + 1)

write_op_arg(chunk, op, arg) ==
  push_op(IF arg > 255 THEN write_extend(chunk, arg \div 256) ELSE chunk,
          op, arg % 256)

\* Chunk::add_constant: ok = FALSE is the "too many constants" failure
add_constant(chunk, value) ==
  IF pool_len(chunk) > MAX_CONSTS
  THEN [ok |-> FALSE, idx |-> 0, chunk |-> chunk]
  ELSE [ok |-> TRUE, idx |-> pool_len(chunk),
        chunk |-> [chunk EXCEPT !.constants = Append(@, value)]]

get_line(chunk, offset) == chunk.lines[offset + 1]

get_constant(chunk, idx) == chunk.constants[(idx - chunk.hidden) + 1]

\* Chunk::get_instruction: the loop from code unit idx on; the operand's low
\* byte is zero when a byte is or-ed in, so the or is an addition
RECURSIVE decode_from(_, _, _, _)
RECURSIVE decode_unit(_, _, _, _, _)

decode_from(chunk, idx, operand, len) ==
  decode_unit(chunk, idx, operand + (chunk.code[idx + 1] % 256), len,
              from_primitive(chunk.code[idx + 1] \div 256))

\* get_instruction without the count of the Extend units in inst.len
decode_unit_short(chunk, idx, acc, len, opcode) ==
  IF opcode # "Extend"
  THEN [opcode |-> opcode, operand |-> acc, len |-> 1]
  ELSE decode_from(chunk, idx + 1, acc * 256, len + 1)

\* one turn of the loop of get_instruction, acc being the operand after the
\* or of the unit's low byte
decode_unit(chunk, idx, acc, len, opcode) ==
  IF opcode # "Extend"
  THEN [opcode |-> opcode, operand |-> acc, len |-> len]
  ELSE decode_from(chunk, idx + 1, acc * 256, len + 1)

get_instruction(chunk, offset) == decode_from(chunk, offset, 0, 1)

\* --------------------------------------------------------- parser.rs: Prec
Prec == [None |-> 0, Assignment |-> 1, Or |-> 2, And |-> 3, Equality |-> 4,
         Comparison |-> 5, Term |-> 6, Factor |-> 7, Unary |-> 8, Call |-> 9,
         Primary |-> 10]

prec_next(prec) == prec + 1

for_op_type(ty) ==
  CASE ty \in {"Minus", "Plus"} -> Prec.Term
    [] ty \in {"Slash", "Star"} -> Prec.Factor
    [] ty \in {"BangEqual", "EqualEqual"} -> Prec.Equality
    [] ty \in {"Greater", "GreaterEqual", "Less", "LessEqual"} -> Prec.Comparison
    [] OTHER -> Prec.None

\* ------------------------------------------------------- parser.rs: Parser
\* stderr holds the diagnostics this parser printed; reports holds every call
\* of report_error in order, with shown = FALSE for a call that printed
\* nothing; crashed is set when the parser hits unreachable!()
ParserNew(text) ==
  [text |-> text, scanner |-> ScannerNew, chunk |-> ChunkNew,
   current |-> TokenDefault, previous |-> TokenDefault,
   had_error |-> FALSE, panic_mode |-> FALSE,
   stderr |-> <<>>, reports |-> <<>>, crashed |-> FALSE]

Diag(line, where, text, msg) ==
  [line |-> line, where |-> where, text |-> text, msg |-> msg]

Report(d, shown) ==
  [line |-> d.line, where |-> d.where, text |-> d.text, msg |-> d.msg,
   shown |-> shown]

\* report_error without its early return
suppressed_never(p) == FALSE

\* the early return of report_error
suppressed(p) == p.panic_mode

\* report_error that prints but leaves panic_mode alone
report_error_loud(p, d) ==
  IF p.crashed THEN p
  ELSE [p EXCEPT !.had_error = TRUE, !.stderr = Append(@, d),
                 !.reports = Append(@, Report(d, TRUE))]

report_error(p, d) ==
  IF p.crashed THEN p
  ELSE IF suppressed(p)
  THEN [p EXCEPT !.reports = Append(@, Report(d, FALSE))]
  ELSE [p EXCEPT !.panic_mode = TRUE, !.had_error = TRUE,
                 !.stderr = Append(@, d),
                 !.reports = Append(@, Report(d, TRUE))]

error_at(p, token, msg) ==
  IF token.ty = "Eof"
  THEN report_error(p, Diag(token.line, "end", <<>>, msg))
  ELSE report_error(p, Diag(token.line, "token", token_text(p.text, token), msg))

error(p, msg) == error_at(p, p.previous, msg)

\* err is a failed result of scan_token
scan_error(p, err) ==
  report_error(p, Diag(p.previous.line, "scan",
                       IF err.ch = NoChar THEN <<>> ELSE <<err.ch>>, err.err))

\* the retry loop of advance
RECURSIVE advance_loop(_)
RECURSIVE advance_scanned(_, _)

advance_loop(p) == advance_scanned(p, scan_token(p.text, p.scanner))

\* one turn of the loop of advance, r being what scan_token returned
advance_scanned(p, r) ==
  IF r.ok
  THEN [p EXCEPT !.scanner = r.sc,
                 !.current = r.token,
                 !.chunk = IF r.token.line # p.previous.line
                           THEN new_line(@, r.token.line) ELSE @]
  ELSE advance_loop(scan_error([p EXCEPT !.scanner = r.sc], r))

advance(p) ==
  IF p.crashed THEN p ELSE advance_loop([p EXCEPT !.previous = p.current])

consume(p, ty, msg) ==
  IF p.crashed THEN p
  ELSE IF p.current.ty = ty THEN advance(p)
  ELSE error_at(p, p.current, msg)

emit_op(p, op) ==
  IF p.crashed THEN p ELSE [p EXCEPT !.chunk = write_op(@, op)]

\* binary emitting nothing for its operator
emit_ops_none(p, ops) == p

RECURSIVE emit_ops(_, _)
emit_ops(p, ops) ==
  IF ops = <<>> THEN p ELSE emit_ops(emit_op(p, Head(ops)), Tail(ops))

\* emit_constant once add_constant has returned r
emit_added(p, r) ==
  IF ~r.ok THEN error(p, "too many constants in one chunk")
  ELSE [p EXCEPT !.chunk = write_op_arg(r.chunk, "Constant", r.idx)]

emit_constant(p, value) ==
  IF p.crashed THEN p ELSE emit_added(p, add_constant(p.chunk, value))

DigitValue(c) == CHOOSE d \in 0..9 : NatDigits(d) = <<c>>

RECURSIVE DigitsValue(_)
DigitsValue(ds) ==
  IF ds = <<>> THEN 0
  ELSE DigitsValue(SubSeq(ds, 1, Len(ds) - 1)) * 10 + DigitValue(ds[Len(ds)])

\* str::parse::<f64> on the text of a Number token
\* the f64 of a text whose '.', if any, is at index dot
f64_at(txt, dot) ==
  IF \E i \in (dot + 1)..Len(txt) : txt[i] # "0"
  THEN NumberX
  ELSE Number(DigitsValue(SubSeq(txt, 1, dot - 1)))

parse_f64(txt) ==
  f64_at(txt, IF \E i \in 1..Len(txt) : txt[i] = "."
              THEN CHOOSE i \in 1..Len(txt) : txt[i] = "."
              ELSE Len(txt) + 1)

number(p) == emit_constant(p, parse_f64(token_text(p.text, p.previous)))

\* literal emitting nothing
literal_silent(p) == p

literal(p) ==
  emit_op(p, CASE p.previous.ty = "Nil" -> "Nil"
               [] p.previous.ty = "True" -> "True"
               [] p.previous.ty = "False" -> "False")

\* binary with the opcodes of >= and <= exchanged
binary_ops_swapped(operator_type) ==
  CASE operator_type = "Plus" -> <<"Add">>
    [] operator_type = "Minus" -> <<"Subtract">>
    [] operator_type = "Star" -> <<"Multiply">>
    [] operator_type = "Slash" -> <<"Divide">>
    [] operator_type = "EqualEqual" -> <<"Equal">>
    [] operator_type = "Less" -> <<"Less">>
    [] operator_type = "Greater" -> <<"Greater">>
    [] operator_type = "BangEqual" -> <<"Equal", "Not">>
    [] operator_type = "GreaterEqual" -> <<"Greater", "Not">>
    [] operator_type = "LessEqual" -> <<"Less", "Not">>

\* the opcodes binary emits for an operator
binary_ops(operator_type) ==
  CASE operator_type = "Plus" -> <<"Add">>
    [] operator_type = "Minus" -> <<"Subtract">>
    [] operator_type = "Star" -> <<"Multiply">>
    [] operator_type = "Slash" -> <<"Divide">>
    [] operator_type = "EqualEqual" -> <<"Equal">>
    [] operator_type = "Less" -> <<"Less">>
    [] operator_type = "Greater" -> <<"Greater">>
    [] operator_type = "BangEqual" -> <<"Equal", "Not">>
    [] operator_type = "GreaterEqual" -> <<"Less", "Not">>
    [] operator_type = "LessEqual" -> <<"Greater", "Not">>

\* the token types the infix loop of parse_precedence hands to binary; any
\* other type reaches unreachable!()
infix_arms ==
  {"Minus", "Plus", "Slash", "Star", "EqualEqual", "Greater", "GreaterEqual",
   "Less", "LessEqual"}

\* binary parsing its right operand at the operator's own precedence
right_prec_same(operator_type) == for_op_type(operator_type)

\* the precedence binary parses its right operand at
right_prec(operator_type) == prec_next(for_op_type(operator_type))

RECURSIVE parse_precedence(_, _)
RECURSIVE prefix_rule(_)
RECURSIVE prefix(_, _)
RECURSIVE infix_loop(_, _)
RECURSIVE infix_rule(_, _)

expression(p) == parse_precedence(p, Prec.Assignment)

grouping(p) ==
  consume(expression(p), "RightParen", "expect ')' after expression")

unary(p) ==
  emit_op(parse_precedence(p, Prec.Unary),
          IF p.previous.ty = "Minus" THEN "Negate" ELSE "Not")

binary(p) ==
  emit_ops(parse_precedence(p, right_prec(p.previous.ty)),
           binary_ops(p.previous.ty))

\* the token types parse_precedence has a prefix arm for
prefix_arms == {"LeftParen", "Minus", "Bang", "Number", "Nil", "True", "False"}

\* the prefix arm of parse_precedence for the token just consumed
prefix_rule(p) ==
  CASE p.previous.ty = "LeftParen" -> grouping(p)
    [] p.previous.ty \in {"Minus", "Bang"} -> unary(p)
    [] p.previous.ty = "Number" -> number(p)
    [] p.previous.ty \in {"Nil", "True", "False"} -> literal(p)

\* parse_precedence after its first advance
prefix(p, precedence) ==
  IF p.previous.ty \in prefix_arms
  THEN infix_loop(prefix_rule(p), precedence)
  ELSE error(p, "expect expression")

parse_precedence(p, precedence) ==
  IF p.crashed THEN p ELSE prefix(advance(p), precedence)

\* the body of the while loop of parse_precedence after its advance; a token
\* type without an arm reaches unreachable!()
infix_rule(p, precedence) ==
  IF p.previous.ty \in infix_arms
  THEN infix_loop(binary(p), precedence)
  ELSE [p EXCEPT !.crashed = TRUE]

\* the while loop of parse_precedence
infix_loop(p, precedence) ==
  IF p.crashed \/ ~(precedence <= for_op_type(p.current.ty)) THEN p
  ELSE infix_rule(advance(p), precedence)

\* Parser::parse up to and including the emission of Return
\* Parser::parse without the consume of Eof
compile_unchecked(p) == emit_op(expression(advance(p)), "Return")

compile(p) ==
  emit_op(consume(expression(advance(p)), "Eof", "expect end of expression"),
          "Return")

clear_error(p) == [p EXCEPT !.had_error = FALSE, !.panic_mode = FALSE]

\* Parser::parse running the chunk whatever had_error says
should_run_always(p) == TRUE

\* the gate of Parser::parse in front of vm.run
should_run(p) == ~p.had_error

\* ------------------------------------------------------------------ vm.rs
MAX_STACK == 1024

\* Result<()> of Vm::run; a RuntimeError is its message and, once with_line
\* has been applied, the "[line N] " prefix
ResultNone == [kind |-> "none", msg |-> "", lined |-> FALSE, line |-> 0]

ResultOk == [kind |-> "ok", msg |-> "", lined |-> FALSE, line |-> 0]

RuntimeError(msg) == [kind |-> "err", msg |-> msg, lined |-> FALSE, line |-> 0]

with_line(e, line) == [e EXCEPT !.lined = TRUE, !.line = line]

\* what one instruction does: kind is "next" (fall through to the next loop
\* iteration), "return" (Return printed and broke out of the loop), "err" (the
\* match arm evaluated to an Err, which run hands to map_err), "early" (an Err
\* propagated by the ? operator inside the match arm) or "panic" (the assert
\* of pop failed)
Outcome(kind, stk, hp, msg, print) ==
  [kind |-> kind, stack |-> stk, heap |-> hp, msg |-> msg, print |-> print]

\* push without the test of the stack's length
push_unchecked(stk, hp, val) == Outcome("next", Append(stk, val), hp, "", <<>>)

push(stk, hp, val) ==
  IF Len(stk) < MAX_STACK
  THEN Outcome("next", Append(stk, val), hp, "", <<>>)
  ELSE Outcome("err", stk, hp, "stack overflow", <<>>)

\* the stack without its top k values
popped(stk, k) == SubSeq(stk, 1, Len(stk) - k)

\* the number of values an opcode pops
pops(op) ==
  CASE op \in {"Return", "Not", "Negate"} -> 1
    [] op \in {"Equal", "Greater", "Less", "Add", "Subtract", "Multiply",
               "Divide"} -> 2
    [] OTHER -> 0

\* derive(PartialEq) on Value: the possible results of a == b
value_eq(a, b) ==
  IF IsNumber(a) /\ IsNumber(b) /\ "numx" \in {a.t, b.t}
  THEN {TRUE, FALSE}
  ELSE {a = b}

Abs(x) == IF x < 0 THEN -x ELSE x

\* the possible values of a Greater, Less, Subtract, Multiply or Divide on two
\* Numbers
arithmetic(op, a, b) ==
  IF "numx" \in {a.t, b.t}
  THEN IF op \in {"Greater", "Less"} THEN {Boolean(TRUE), Boolean(FALSE)}
       ELSE {NumberX}
  ELSE CASE op = "Greater" -> {Boolean(a.n > b.n)}
         [] op = "Less" -> {Boolean(a.n < b.n)}
         [] op = "Subtract" -> {Number(a.n - b.n)}
         [] op = "Multiply" -> {Number(a.n * b.n)}
         [] op = "Divide" ->
              IF b.n # 0 /\ Abs(a.n) % Abs(b.n) = 0
              THEN {Number((IF (a.n < 0) = (b.n < 0) THEN 1 ELSE -1)
                           * (Abs(a.n) \div Abs(b.n)))}
              ELSE {NumberX}

\* add_objects building its value without Vm::new_string
add_objects_unregistered(stk, hp, a, b) == push(stk, hp, Object(a.s \o b.s))

\* Vm::new_string with the push of Vm::add_objects
add_objects(stk, hp, a, b) ==
  push(stk, Append(hp, a.s \o b.s), Object(a.s \o b.s))

\* the match on inst.opcode() in Vm::run
execute(chunk, inst, stk, hp) ==
  LET op == inst.opcode
      top == stk[Len(stk)]
      under == stk[Len(stk) - 1]
      s1 == popped(stk, 1)
      s2 == popped(stk, 2)
  IN  IF Len(stk) < pops(op) THEN {Outcome("panic", stk, hp, "", <<>>)}
      ELSE CASE op = "Nil" -> {push(stk, hp, Nil)}
             [] op = "True" -> {push(stk, hp, Boolean(TRUE))}
             [] op = "False" -> {push(stk, hp, Boolean(FALSE))}
             [] op = "Return" -> {Outcome("return", s1, hp, "", Display(top))}
             [] op = "Not" -> {push(s1, hp, Boolean(~truthy(top)))}
             [] op = "Negate" ->
                  IF top.t = "num" THEN {push(s1, hp, Number(-top.n))}
                  ELSE IF top.t = "numx" THEN {push(s1, hp, NumberX)}
                  ELSE {Outcome("err", s1, hp, "operand must be a number", <<>>)}
             [] op = "Equal" ->
                  {push(s2, hp, Boolean(v)) : v \in value_eq(top, under)}
             [] op \in {"Greater", "Less", "Subtract", "Multiply", "Divide"} ->
                  IF IsNumber(under) /\ IsNumber(top)
                  THEN {push(s2, hp, v) : v \in arithmetic(op, under, top)}
                  ELSE {Outcome("early", s2, hp, "operands must be numbers",
                                <<>>)}
             [] op = "Add" ->
                  IF IsNumber(under) /\ IsNumber(top)
                  THEN IF "numx" \in {under.t, top.t}
                       THEN {push(s2, hp, NumberX)}
                       ELSE {push(s2, hp, Number(under.n + top.n))}
                  ELSE IF under.t = "obj" /\ top.t = "obj"
                  THEN {add_objects(s2, hp, under, top)}
                  ELSE {Outcome("err", s2, hp,
                                "operands must be numbers or strings", <<>>)}
             [] op = "Constant" ->
                  {push(stk, hp, get_constant(chunk, inst.operand))}
             [] OTHER -> {Outcome("err", stk, hp, "unknown opcode", <<>>)}

\* ------------------------------------------------------------ source units
\* A unit is a source text, together with the expression tree it was printed
\* from when it is a well-formed expression (<<"text">> for free text).
Lit(n) == <<"lit", n>>

Str(chars) == <<"str", chars>>

Un(op, e) == <<"un", op, e>>

Bin(op, l, r) == <<"bin", op, l, r>>

NoExpr == <<"none">>

FreeText == <<"text">>

\* the usual binding strength of the operators of the expression grammar
RefPrec(e) ==
  CASE e[1] = "bin" /\ e[2] \in {"==", "!="} -> 1
    [] e[1] = "bin" /\ e[2] \in {"<", ">", "<=", ">="} -> 2
    [] e[1] = "bin" /\ e[2] \in {"+", "-"} -> 3
    [] e[1] = "bin" /\ e[2] \in {"*", "/"} -> 4
    [] e[1] = "un" -> 5
    [] OTHER -> 6

OpChars(op) ==
  CASE op = "==" -> <<"=", "=">>
    [] op = "!=" -> <<"!", "=">>
    [] op = "<=" -> <<"<", "=">>
    [] op = ">=" -> <<">", "=">>
    [] OTHER -> <<op>>

Paren(chars) == <<"(">> \o chars \o <<")">>

Front(seq) == SubSeq(seq, 1, Len(seq) - 1)

\* the text of an expression, parenthesised only where the usual rules (left
\* associativity, unary over binary) would otherwise read it differently
RECURSIVE Unparse(_)
Unparse(e) ==
  CASE e[1] = "lit" -> NatDigits(e[2])
    [] e[1] = "str" -> <<QUOTE>> \o e[2] \o <<QUOTE>>
    [] e[1] = "nil" -> <<"n", "i", "l">>
    [] e[1] = "true" -> <<"t", "r", "u", "e">>
    [] e[1] = "false" -> <<"f", "a", "l", "s", "e">>
    [] e[1] = "un" ->
         <<e[2]>> \o (IF RefPrec(e[3]) < RefPrec(e) THEN Paren(Unparse(e[3]))
                      ELSE Unparse(e[3]))
    [] e[1] = "bin" ->
         (IF RefPrec(e[3]) < RefPrec(e) THEN Paren(Unparse(e[3]))
          ELSE Unparse(e[3]))
         \o <<" ">> \o OpChars(e[2]) \o <<" ">> \o
         (IF RefPrec(e[4]) <= RefPrec(e) THEN Paren(Unparse(e[4]))
          ELSE Unparse(e[4]))

AllOps == {"+", "-", "*", "/", "==", "!=", "<", ">", "<=", ">="}

ArithOps == {"+", "-", "*"}

NumLits == {Lit(n) : n \in 1..MaxLit}

Leaves == NumLits \cup {<<"nil">>, <<"true">>, <<"false">>}

SmallArith == NumLits \cup {Un("-", e) : e \in NumLits}

Arith1 ==
  SmallArith \cup {Bin(o, l, r) : o \in ArithOps, l \in NumLits, r \in NumLits}

\* expressions of integer literals, unary minus and + - *, two operators deep
ArithExprs ==
  Arith1 \cup {Un("-", e) : e \in Arith1}
         \cup {Bin(o, l, r) : o \in ArithOps, l \in Arith1, r \in SmallArith}
         \cup {Bin(o, l, r) : o \in ArithOps, l \in SmallArith, r \in Arith1}

Operands ==
  Leaves \cup {Un("-", e) : e \in NumLits}
         \cup {Bin("+", Lit(1), r) : r \in NumLits}

\* one binary operator of any kind between two operand expressions
PairExprs == {Bin(o, l, r) : o \in AllOps, l \in Operands, r \in Operands}

TinyLeaves == {Lit(1), <<"nil">>, <<"true">>}

\* a binary operator whose right operand is itself a binary expression
NestedExprs ==
  {Bin(o1, l, Bin(o2, m, r)) : o1 \in {"+", "=="}, o2 \in AllOps,
                               l \in TinyLeaves, m \in TinyLeaves,
                               r \in TinyLeaves}

UnaryExprs == {Un(o, e) : o \in {"-", "!"}, e \in Leaves}

StrLits == {Str(<<>>), Str(<<"a">>), Str(<<"b">>)}

StrExprs ==
  StrLits \cup {Bin(o, l, r) : o \in {"+", "=="}, l \in StrLits, r \in StrLits}

Exprs ==
  ArithExprs \cup PairExprs \cup NestedExprs \cup UnaryExprs \cup StrExprs

SrcAlphabet == {"1", "+", "(", ")", NL, "@", QUOTE}

\* every text of at most MaxSrcLen bytes over SrcAlphabet
ShortSources == UNION {[1..n -> SrcAlphabet] : n \in 0..MaxSrcLen}

Units ==
  {[text |-> Unparse(e), expr |-> e] : e \in Exprs}
    \cup {[text |-> t, expr |-> FreeText] : t \in ShortSources}

\* ------------------------------------------------------------------- state
VARIABLES
  pc,         \* where the REPL is: "idle", "parse", "run", "unwrap", "parsed",
              \* "cleared", or "aborted" (the process panicked)
  expr,       \* the expression tree of the unit being processed
  parser,     \* the Parser of the unit being processed
  stack,      \* Vm::stack
  heap,       \* Vm::heap: the text of every registered string
  ip,         \* InstIter::offset of the run in progress
  result,     \* what Vm::run returned for this unit
  stdout,     \* the lines printed while processing this unit
  run_calls,  \* the calls of Vm::run made for this unit
  written,    \* the write_op and write_op_arg calls made on the chunk directly
  tokens      \* what the calls of scan_token made on the scanner directly
              \* returned

vars ==
  <<pc, expr, parser, stack, heap, ip, result, stdout, run_calls, written,
    tokens>>

Init ==
  /\ pc = "idle"
  /\ expr = NoExpr
  /\ parser = ParserNew(<<>>)
  /\ stack = <<>>
  /\ heap = <<>>
  /\ ip = 0
  /\ result = ResultNone
  /\ stdout = <<>>
  /\ run_calls = 0
  /\ written = <<>>
  /\ tokens = <<>>

\* repl: a complete unit has been read and a Parser is made for it
ReadUnit ==
  /\ pc = "idle"
  /\ \E u \in Units :
       /\ parser' = ParserNew(u.text)
       /\ expr' = u.expr
  /\ pc' = "parse"
  /\ UNCHANGED <<stack, heap, ip, result, stdout, run_calls, written, tokens>>

\* Parser::parse up to the call of vm.run
\* Parser::parse once the chunk is complete: p is the parser at that point
Compiled(p) ==
  /\ parser' = p
  /\ IF p.crashed
     THEN pc' = "aborted" /\ UNCHANGED <<ip, run_calls>>
     ELSE IF should_run(p)
     THEN pc' = "run" /\ ip' = 0 /\ run_calls' = run_calls + 1
     ELSE pc' = "parsed" /\ UNCHANGED <<ip, run_calls>>

Compile ==
  /\ pc = "parse"
  /\ Compiled(compile(parser))
  /\ UNCHANGED <<expr, stack, heap, result, stdout, written, tokens>>

\* one iteration of the loop of Vm::run
Step ==
  /\ pc = "run"
  /\ IF ip >= Len(parser.chunk.code)
     THEN /\ result' = ResultOk
          /\ pc' = "unwrap"
          /\ UNCHANGED <<stack, heap, ip, stdout>>
     ELSE LET inst == get_instruction(parser.chunk, ip)
              offset == ip + inst.len
          IN  \E o \in execute(parser.chunk, inst, stack, heap) :
                /\ ip' = offset
                /\ heap' = o.heap
                /\ CASE o.kind = "next" ->
                          /\ stack' = o.stack
                          /\ UNCHANGED <<pc, result, stdout>>
                     [] o.kind = "return" ->
                          /\ stack' = o.stack
                          /\ stdout' = Append(stdout, o.print)
                          /\ result' = ResultOk
                          /\ pc' = "unwrap"
                     [] o.kind = "err" ->
                          /\ stack' = <<>>
                          /\ result' = with_line(RuntimeError(o.msg),
                                         get_line(parser.chunk,
                                                  offset - inst.len))
                          /\ pc' = "unwrap"
                          /\ UNCHANGED stdout
                     [] o.kind = "early" ->
                          /\ stack' = o.stack
                          /\ result' = RuntimeError(o.msg)
                          /\ pc' = "unwrap"
                          /\ UNCHANGED stdout
                     [] o.kind = "panic" ->
                          /\ stack' = o.stack
                          /\ pc' = "aborted"
                          /\ UNCHANGED <<result, stdout>>
  /\ UNCHANGED <<expr, parser, run_calls, written, tokens>>

\* the unwrap() that Parser::parse applies to the result of vm.run
Unwrap ==
  /\ pc = "unwrap"
  /\ pc' = IF result.kind = "ok" THEN "parsed" ELSE "aborted"
  /\ UNCHANGED <<expr, parser, stack, heap, ip, result, stdout, run_calls,
               written, tokens>>

\* repl: parse has returned and clear_error is called
ClearError ==
  /\ pc = "parsed"
  /\ pc' = "cleared"
  /\ parser' = clear_error(parser)
  /\ UNCHANGED <<expr, stack, heap, ip, result, stdout, run_calls, written, tokens>>

\* repl: the Parser of the unit goes out of scope at the end of the else block
DropParser ==
  /\ pc = "cleared"
  /\ pc' = "idle"
  /\ expr' = NoExpr
  /\ parser' = ParserNew(<<>>)
  /\ ip' = 0
  /\ result' = ResultNone
  /\ stdout' = <<>>
  /\ run_calls' = 0
  /\ UNCHANGED <<stack, heap, written, tokens>>

Next == ReadUnit \/ Compile \/ Step \/ Unwrap \/ ClearError \/ DropParser

Spec == Init /\ [][Next]_vars

\* ------------------------------------------------- a chunk written directly
\* The emitter of code.rs driven call by call, as the compiler drives it: the
\* chunk of `parser` receives up to MaxWrites instructions.
PlainOps ==
  {"Nil", "True", "False", "Return", "Not", "Negate", "Equal", "Greater",
   "Less", "Add", "Subtract", "Multiply", "Divide"}

\* operands around every change in the number of bytes and of significant bits
WriteArgs ==
  {0, 1, 255, 256, 257, 32767, 32768, 65535, 65536, 65537,
   8388607, 8388608, 16777215}

Written(op, arg) == [opcode |-> op, operand |-> arg]

ChunkInit ==
  /\ pc = "chunk"
  /\ expr = NoExpr
  /\ parser = ParserNew(<<>>)
  /\ stack = <<>>
  /\ heap = <<>>
  /\ ip = 0
  /\ result = ResultNone
  /\ stdout = <<>>
  /\ run_calls = 0
  /\ written = <<>>
  /\ tokens = <<>>

WriteOp ==
  /\ pc = "chunk"
  /\ Len(written) < MaxWrites
  /\ \E op \in PlainOps :
       /\ parser' = [parser EXCEPT !.chunk = write_op(@, op)]
       /\ written' = Append(written, Written(op, 0))
  /\ UNCHANGED <<pc, expr, stack, heap, ip, result, stdout, run_calls, tokens>>

WriteOpArg ==
  /\ pc = "chunk"
  /\ Len(written) < MaxWrites
  /\ \E arg \in WriteArgs :
       /\ parser' = [parser EXCEPT !.chunk = write_op_arg(@, "Constant", arg)]
       /\ written' = Append(written, Written("Constant", arg))
  /\ UNCHANGED <<pc, expr, stack, heap, ip, result, stdout, run_calls, tokens>>

ChunkNext == WriteOp \/ WriteOpArg

ChunkSpec == ChunkInit /\ [][ChunkNext]_vars

\* ------------------------------------------------ a text scanned directly
\* Scanner::scan_token called on a text until it returns Eof, as the tests of
\* scanner/test.rs call it.  `expr` describes how the text was made.
Keywords ==
  {[ty |-> "And", text |-> <<"a", "n", "d">>],
   [ty |-> "Class", text |-> <<"c", "l", "a", "s", "s">>],
   [ty |-> "Else", text |-> <<"e", "l", "s", "e">>],
   [ty |-> "False", text |-> <<"f", "a", "l", "s", "e">>],
   [ty |-> "For", text |-> <<"f", "o", "r">>],
   [ty |-> "Fun", text |-> <<"f", "u", "n">>],
   [ty |-> "If", text |-> <<"i", "f">>],
   [ty |-> "Nil", text |-> <<"n", "i", "l">>],
   [ty |-> "Or", text |-> <<"o", "r">>],
   [ty |-> "Print", text |-> <<"p", "r", "i", "n", "t">>],
   [ty |-> "Return", text |-> <<"r", "e", "t", "u", "r", "n">>],
   [ty |-> "Super", text |-> <<"s", "u", "p", "e", "r">>],
   [ty |-> "This", text |-> <<"t", "h", "i", "s">>],
   [ty |-> "True", text |-> <<"t", "r", "u", "e">>],
   [ty |-> "Var", text |-> <<"v", "a", "r">>],
   [ty |-> "While", text |-> <<"w", "h", "i", "l", "e">>]}

\* bytes that may follow a word: those that continue an identifier and those
\* that do not
IdentBytes == {"y", "_", "1"}

OtherBytes == {" ", "(", NL, ".", "@"}

DigitRuns == {<<"0">>, <<"7">>, <<"1", "2">>, <<"9", "0", "5">>}

\* digits, digits '.' digits, digits '.', '.' digits
NumberTexts ==
  {[text |-> d, expr |-> <<"int", d>>] : d \in DigitRuns}
    \cup {[text |-> d \o <<".">> \o f, expr |-> <<"frac", d, f>>] :
             d \in DigitRuns, f \in DigitRuns}
    \cup {[text |-> d \o <<".">>, expr |-> <<"trail", d>>] : d \in DigitRuns}
    \cup {[text |-> <<".">> \o d, expr |-> <<"lead", d>>] : d \in DigitRuns}

\* a keyword alone, a keyword and one more byte, a proper prefix of a keyword
WordTexts ==
  {[text |-> k.text, expr |-> <<"keyword", k.ty, k.text, <<>>>>] :
     k \in Keywords}
    \cup {[text |-> k.text \o <<c>>, expr |-> <<"keyword", k.ty, k.text, <<c>>>>] :
             k \in Keywords, c \in IdentBytes \cup OtherBytes}
    \cup UNION {{[text |-> SubSeq(k.text, 1, n), expr |-> <<"prefix">>] :
                    n \in 1..(Len(k.text) - 1)} : k \in Keywords}
    \cup {[text |-> w, expr |-> <<"word">>] :
             w \in {<<"f", "o", "r", "e", "s", "t">>, <<"a", "n", "d", "y">>,
                    <<"f", "o", "r", "m", "l", "e", "s", "s">>}}

LineAlphabet == {"a", " ", NL, "/", QUOTE}

\* every text of at most MaxScanLen bytes over LineAlphabet
LineTexts ==
  {[text |-> t, expr |-> FreeText] :
     t \in UNION {[1..n -> LineAlphabet] : n \in 0..MaxScanLen}}

BACKSLASH == "\\"

StringAlphabet == {QUOTE, BACKSLASH, "a", NL}

\* every text of at most MaxScanLen bytes over StringAlphabet
StringTexts ==
  {[text |-> t, expr |-> FreeText] :
     t \in UNION {[1..n -> StringAlphabet] : n \in 0..MaxScanLen}}

ScanTexts == NumberTexts \cup WordTexts \cup LineTexts \cup StringTexts

ScanInit ==
  /\ pc = "scan"
  /\ \E u \in ScanTexts :
       /\ parser = ParserNew(u.text)
       /\ expr = u.expr
  /\ stack = <<>>
  /\ heap = <<>>
  /\ ip = 0
  /\ result = ResultNone
  /\ stdout = <<>>
  /\ run_calls = 0
  /\ written = <<>>
  /\ tokens = <<>>

\* scan_token has returned Ok(Eof), once
ScanDone ==
  /\ pc = "scan"
  /\ tokens # <<>>
  /\ tokens[Len(tokens)].ok
  /\ tokens[Len(tokens)].token.ty = "Eof"

\* the scanner after a call of scan_token that returned r
Scanned(r) ==
  /\ parser' = [parser EXCEPT !.scanner = r.sc]
  /\ tokens' = Append(tokens, r)

ScanToken ==
  /\ pc = "scan"
  /\ ~ScanDone
  /\ Scanned(scan_token(parser.text, parser.scanner))
  /\ UNCHANGED <<pc, expr, stack, heap, ip, result, stdout, run_calls, written>>

\* one more call of scan_token after it has returned Ok(Eof)
ScanAtEof ==
  /\ ScanDone \/ pc = "eof"
  /\ Cardinality({i \in DOMAIN tokens : tokens[i].token.ty = "Eof"
                                        /\ tokens[i].ok}) <= MaxEofCalls
  /\ pc' = "eof"
  /\ Scanned(scan_token(parser.text, parser.scanner))
  /\ UNCHANGED <<expr, stack, heap, ip, result, stdout, run_calls, written>>

ScanNext == ScanToken \/ ScanAtEof

ScanSpec == ScanInit /\ [][ScanNext]_vars

\* ------------------------------------------- a constant pool near its limit
\* The compiler in the middle of a unit, about to compile a number literal,
\* with a pool that already holds some number of constants; the code emitted
\* for the earlier part of the unit is left out, the compiler only appends
\* to it.
PoolSizes == {0, 255, 256, MAX_CONSTS - 2, MAX_CONSTS - 1, MAX_CONSTS}

PoolInit ==
  /\ pc = "pool"
  /\ expr = NoExpr
  /\ \E n \in PoolSizes :
       parser = [ParserNew(<<>>) EXCEPT !.chunk.hidden = n]
  /\ stack = <<>>
  /\ heap = <<>>
  /\ ip = 0
  /\ result = ResultNone
  /\ stdout = <<>>
  /\ run_calls = 0
  /\ written = <<>>
  /\ tokens = <<>>

\* Parser::number for a literal of value n
EmitConstant ==
  /\ pc = "pool"
  /\ Len(written) < MaxWrites
  /\ \E n \in 1..MaxLit :
       /\ parser' = emit_constant(parser, Number(n))
       /\ written' = Append(written, Written("Constant", n))
  /\ UNCHANGED <<pc, expr, stack, heap, ip, result, stdout, run_calls, tokens>>

PoolNext == EmitConstant

PoolSpec == PoolInit /\ [][PoolNext]_vars

\* ------------------------------------------------ a run deep in an expression
\* The run of a unit `1 + (1 + ( ... (e) ... ))` at the moment it reaches the
\* code of e: the left operands of the n enclosing additions are on the stack
\* and their n Add instructions follow the code of e.  The code in front of e
\* has been executed and is left out.
StackDepths == {0, 1, MAX_STACK - 2, MAX_STACK - 1, MAX_STACK}

InnerExprs ==
  {Lit(1), <<"nil">>, Un("-", Lit(1)), Bin("+", Lit(1), Lit(1)),
   Bin("<", Lit(1), <<"true">>), Bin("+", Lit(1), Bin("*", Lit(2), Lit(3)))}

\* the chunk of parser p with n Add instructions between its code and its
\* final Return
Enclosed(p, n) ==
  [p EXCEPT !.chunk.code = Front(@) \o [i \in 1..n |-> OpByte("Add") * 256]
                             \o <<OpByte("Return") * 256>>,
            !.chunk.lines = @ \o [i \in 1..n |-> p.chunk.current_line]]

StackInit ==
  /\ pc = "run"
  /\ \E e \in InnerExprs, n \in StackDepths :
       /\ expr = e
       /\ parser = Enclosed(compile(ParserNew(Unparse(e))), n)
       /\ stack = [i \in 1..n |-> Number(1)]
  /\ heap = <<>>
  /\ ip = 0
  /\ result = ResultNone
  /\ stdout = <<>>
  /\ run_calls = 1
  /\ written = <<>>
  /\ tokens = <<>>

StackNext == Step \/ Unwrap

StackSpec == StackInit /\ [][StackNext]_vars

\* ------------------------------------------- single instructions on values
\* Vm::run on a chunk that loads one or two values of any kind, applies one
\* opcode and returns, and on the chunks compiled from applications of `!`.
VmValues ==
  {Nil, Boolean(TRUE), Boolean(FALSE), Number(0), Number(1), Object(<<>>),
   Object(<<"a">>), Object(<<"b">>)}

VmOperands == UNION {[1..n -> VmValues] : n \in 1..2}

VmOps == PlainOps \ {"Return"}

\* the Constant instruction of the constant just added
load_at(r) == write_op_arg(r.chunk, "Constant", r.idx)

\* add_constant and a Constant instruction for each of vals, from vals[i] on
RECURSIVE Loads(_, _, _)
Loads(chunk, vals, i) ==
  IF i > Len(vals) THEN chunk
  ELSE Loads(load_at(add_constant(chunk, vals[i])), vals, i + 1)

VmChunk(vals, op) == write_op(write_op(Loads(ChunkNew, vals, 1), op), "Return")

\* the registry after Vm::new_string has made the String objects among vals
RECURSIVE HeapOf(_, _)
HeapOf(vals, i) ==
  IF i > Len(vals) THEN <<>>
  ELSE (IF vals[i].t = "obj" THEN <<vals[i].s>> ELSE <<>>)
         \o HeapOf(vals, i + 1)

NotExprs ==
  {Un("!", e) : e \in {<<"nil">>, <<"true">>, <<"false">>, Lit(0), Lit(1)}}
    \cup {Un("!", Un("!", <<"nil">>)), Un("!", Un("-", Lit(0)))}

VmInit ==
  /\ pc = "run"
  /\ \/ \E vals \in VmOperands, op \in VmOps :
          /\ expr = NoExpr
          /\ parser = [ParserNew(<<>>) EXCEPT !.chunk = VmChunk(vals, op)]
          /\ heap = HeapOf(vals, 1)
     \/ \E e \in NotExprs :
          /\ expr = e
          /\ parser = compile(ParserNew(Unparse(e)))
          /\ heap = <<>>
  /\ stack = <<>>
  /\ ip = 0
  /\ result = ResultNone
  /\ stdout = <<>>
  /\ run_calls = 1
  /\ written = <<>>
  /\ tokens = <<>>

VmNext == Step \/ Unwrap

VmSpec == VmInit /\ [][VmNext]_vars

\* ------------------------------------------------- vocabulary of the claims
\* InstIter::next, repeated from offset to the end of the code
RECURSIVE instructions_from(_, _)
instructions_from(chunk, offset) ==
  IF offset >= Len(chunk.code) THEN <<>>
  ELSE LET inst == get_instruction(chunk, offset)
       IN  <<[offset |-> offset, opcode |-> inst.opcode,
              operand |-> inst.operand, len |-> inst.len]>>
           \o instructions_from(chunk, offset + inst.len)

instructions(chunk) == instructions_from(chunk, 0)

\* the instructions of a chunk with every Constant operand replaced by the
\* value it addresses
Resolved(chunk) ==
  LET is == instructions(chunk)
  IN  [i \in 1..Len(is) |->
        [op |-> is[i].opcode,
         val |-> IF is[i].opcode = "Constant"
                 THEN get_constant(chunk, is[i].operand) ELSE Nil]]

Plain(op) == [op |-> op, val |-> Nil]

\* the code the compiler emits for expression e on its own, without the
\* final Return
CodeOf(e) == Front(Resolved(compile(ParserNew(Unparse(e))).chunk))

\* expressions of integer literals, unary minus, + - * and nothing else
RECURSIVE IsArith(_)
IsArith(e) ==
  CASE e[1] = "lit" -> TRUE
    [] e[1] = "un" -> e[2] = "-" /\ IsArith(e[3])
    [] e[1] = "bin" -> e[2] \in ArithOps /\ IsArith(e[3]) /\ IsArith(e[4])
    [] OTHER -> FALSE

\* the value of an arithmetic expression
RECURSIVE Eval(_)
Eval(e) ==
  CASE e[1] = "lit" -> e[2]
    [] e[1] = "un" -> 0 - Eval(e[3])
    [] e[1] = "bin" /\ e[2] = "+" -> Eval(e[3]) + Eval(e[4])
    [] e[1] = "bin" /\ e[2] = "-" -> Eval(e[3]) - Eval(e[4])
    [] e[1] = "bin" /\ e[2] = "*" -> Eval(e[3]) * Eval(e[4])

Decimal(k) == IF k < 0 THEN <<"-">> \o NatDigits(0 - k) ELSE NatDigits(k)

TrueText == <<"t", "r", "u", "e">>

FalseText == <<"f", "a", "l", "s", "e">>

\* the unit has been compiled and clear_error has not been called yet
AfterCompile == pc \notin {"idle", "parse", "cleared"}

Failed == result.kind = "err"

\* the offset of the first code unit of the instruction the run stopped at
StoppedAt ==
  LET is == instructions(parser.chunk)
  IN  is[CHOOSE i \in 1..Len(is) : is[i].offset + is[i].len = ip].offset

IsBin(ops) == expr[1] = "bin" /\ expr[2] \in ops

\* report_error was called at least twice for this unit, for different lines
TwoErrorLines ==
  \E i, j \in DOMAIN parser.reports :
    parser.reports[i].line # parser.reports[j].line

\* ------------------------------------------------------------------ claims

\* C1: whenever Vm::run returns a runtime error, whatever instruction failed,
\* the operand stack is empty at the moment the error is returned.
C1_ErrorClearsStack == Failed => stack = <<>>

\* C2: every runtime error returned by Vm::run carries the source line that
\* the line table holds for the first code unit of the failed instruction.
C2_ErrorCarriesLine ==
  Failed => result.lined /\ result.line = get_line(parser.chunk, StoppedAt)

\* C3: a runtime error stops only the current run; it does not abort the
\* session, which goes on to the next unit with the same VM.
C3_ErrorNotFatal == Failed => pc # "aborted"

\* C4: Vm::run is called for a unit only if had_error is false at the end of
\* parsing, and then exactly once; a chunk compiled with errors is never run.
C4_ErrorChunkNeverRun ==
  /\ run_calls <= 1
  /\ (AfterCompile /\ parser.had_error) => run_calls = 0
  /\ (AfterCompile /\ ~parser.crashed /\ ~parser.had_error) => run_calls = 1

C4_Witness ==
  /\ pc = "parsed"
  /\ parser.had_error
  /\ Len(parser.chunk.code) > 1
  /\ run_calls = 0

\* C5: compiling `a != b` completes normally and emits the code of a, the
\* code of b, then Equal and Not.
C5_NotEqualCode ==
  (IsBin({"!="}) /\ AfterCompile) =>
    /\ ~parser.crashed
    /\ Resolved(parser.chunk) =
         CodeOf(expr[3]) \o CodeOf(expr[4])
           \o <<Plain("Equal"), Plain("Not"), Plain("Return")>>

\* C6: `a >= b` compiles to the code of a, the code of b, Less, Not, and
\* `a <= b` to the code of a, the code of b, Greater, Not; on integer operands
\* the run prints true exactly when a >= b (respectively a <= b).
C6_DerivedComparison ==
  (IsBin({">=", "<="}) /\ AfterCompile) =>
    /\ ~parser.crashed
    /\ Resolved(parser.chunk) =
         CodeOf(expr[3]) \o CodeOf(expr[4])
           \o <<Plain(IF expr[2] = ">=" THEN "Less" ELSE "Greater"),
                Plain("Not"), Plain("Return")>>
    /\ (IsArith(expr[3]) /\ IsArith(expr[4])) =>
         /\ pc # "aborted"
         /\ pc = "parsed" =>
              stdout = <<IF (expr[2] = ">=" /\ Eval(expr[3]) >= Eval(expr[4]))
                            \/ (expr[2] = "<=" /\ Eval(expr[3]) <= Eval(expr[4]))
                         THEN TrueText ELSE FalseText>>

C6_Witness ==
  /\ pc = "parsed"
  /\ IsBin({">="})
  /\ IsArith(expr[3]) /\ IsArith(expr[4])
  /\ Eval(expr[3]) = Eval(expr[4])
  /\ stdout = <<TrueText>>

C8_StringConcat ==
  (IsBin({"+"}) /\ expr[3][1] = "str" /\ expr[4][1] = "str" /\ AfterCompile) =>
    /\ ~parser.crashed /\ ~parser.had_error
    /\ pc = "parsed" =>
         /\ stdout = <<expr[3][2] \o expr[4][2]>>
         /\ heap # <<>>
         /\ heap[Len(heap)] = expr[3][2] \o expr[4][2]

\* C9 (as claimed): a unit with two syntax errors on different lines prints a
\* diagnostic for each of the two, and its chunk is not executed.
C9_BothErrorsReported ==
  (AfterCompile /\ TwoErrorLines) =>
    /\ \E i, j \in DOMAIN parser.reports :
         /\ parser.reports[i].line # parser.reports[j].line
         /\ parser.reports[i].shown /\ parser.reports[j].shown
    /\ run_calls = 0

\* C9 (amended): a unit with two syntax errors on different lines prints
\* exactly one diagnostic, the one of the first error, and its chunk is not
\* executed.
C9_OnlyFirstErrorReported ==
  (AfterCompile /\ TwoErrorLines) =>
    /\ Len(parser.stderr) = 1
    /\ parser.stderr[1].line = parser.reports[1].line
    /\ parser.stderr[1].msg = parser.reports[1].msg
    /\ run_calls = 0

C9_Witness ==
  /\ pc = "parsed"
  /\ TwoErrorLines
  /\ parser.reports[1].shown
  /\ Len(parser.stderr) = 1

\* C10 (as claimed): every scan failure of a unit prints its own diagnostic,
\* also a scan failure that comes after an earlier error of the unit.
C10_EveryScanFailureShown ==
  \A i \in DOMAIN parser.reports :
    parser.reports[i].where = "scan" => parser.reports[i].shown

\* C10 (amended): a scan failure prints its diagnostic exactly when no error
\* was reported earlier in the unit; a later scan failure prints nothing.
C10_ScanFailureShownIffFirst ==
  \A i \in DOMAIN parser.reports :
    parser.reports[i].where = "scan" => (parser.reports[i].shown <=> i = 1)

C10_Witness ==
  /\ pc = "parsed"
  /\ Len(parser.reports) >= 2
  /\ parser.reports[1].where = "scan" /\ parser.reports[1].shown
  /\ parser.reports[2].where = "scan" /\ ~parser.reports[2].shown

\* C11: a Parser prints at most one diagnostic between two calls of
\* clear_error: the first error reported is printed and every later one is
\* swallowed; had_error and panic_mode are both set from the first error on,
\* panic_mode implies had_error in every state, and a flag that is set is
\* reset by no step but clear_error.
C11_OneDiagnosticPerUnit ==
  /\ [](/\ Len(parser.stderr) <= 1
        /\ \A i \in DOMAIN parser.reports : parser.reports[i].shown <=> i = 1
        /\ parser.panic_mode => parser.had_error
        /\ (parser.reports # <<>> /\ pc # "cleared") =>
             parser.had_error /\ parser.panic_mode)
  /\ [][((parser.had_error /\ ~parser'.had_error)
          \/ (parser.panic_mode /\ ~parser'.panic_mode)) =>
           (pc = "parsed" /\ parser' = clear_error(parser))]_vars

C11_Witness ==
  /\ pc = "cleared"
  /\ Len(parser.reports) >= 3
  /\ Len(parser.stderr) = 1
  /\ ~parser.had_error /\ ~parser.panic_mode

\* the number of bytes an operand needs
ByteLen(x) == IF x < 256 THEN 1 ELSE IF x < 65536 THEN 2 ELSE 3

\* some operand written so far needs Extend code units
WroteWide == \E i \in DOMAIN written : written[i].operand > 255

\* C12 (as claimed): the line table has one entry per decoded instruction,
\* also when operands need Extend code units.
C12_LinePerInstruction ==
  Len(parser.chunk.lines) = Len(instructions(parser.chunk))

\* C12 (amended): the line table has one entry per code unit; its length is
\* the number of decoded instructions exactly when no operand written needed
\* an Extend code unit, and larger otherwise.
C12_LinePerCodeUnit ==
  /\ Len(parser.chunk.lines) = Len(parser.chunk.code)
  /\ Len(instructions(parser.chunk)) = Len(written)
  /\ IF WroteWide
     THEN Len(parser.chunk.lines) > Len(instructions(parser.chunk))
     ELSE Len(parser.chunk.lines) = Len(instructions(parser.chunk))

C12_Witness ==
  /\ pc = "chunk"
  /\ Len(written) = 2
  /\ written[1].operand = 256
  /\ Len(parser.chunk.lines) = 3

\* the opcode byte and the operand byte of code unit k (from 0) of the chunk
UnitOp(k) == from_primitive(parser.chunk.code[k + 1] \div 256)

UnitByte(k) == parser.chunk.code[k + 1] % 256

\* C13: an operand above 8 bits is emitted as one Extend code unit per byte
\* above its low byte, the most significant non-zero byte first and never a
\* zero byte in front, then one code unit with the opcode and the low byte;
\* an operand of 8 bits is a single code unit.
C13_MinimalExtend ==
  \A i \in DOMAIN instructions(parser.chunk) :
    LET inst == instructions(parser.chunk)[i]
    IN  /\ inst.len = ByteLen(inst.operand)
        /\ inst.len > 1 => UnitByte(inst.offset) # 0
        /\ \A k \in inst.offset..(inst.offset + inst.len - 2) :
             UnitOp(k) = "Extend"
        /\ UnitOp(inst.offset + inst.len - 1) = inst.opcode
        /\ UnitByte(inst.offset + inst.len - 1) = inst.operand % 256

\* C14: decoding the chunk yields the opcodes and operands that were written,
\* in order, and an operand above 255 occupies at least one Extend code unit
\* in front of the final code unit that holds its opcode.
C14_RoundTrip ==
  /\ Len(instructions(parser.chunk)) = Len(written)
  /\ \A i \in DOMAIN written :
       LET inst == instructions(parser.chunk)[i]
       IN  /\ inst.opcode = written[i].opcode
           /\ inst.operand = written[i].operand
           /\ written[i].operand > 255 =>
                /\ inst.len >= 2
                /\ UnitOp(inst.offset) = "Extend"
                /\ UnitOp(inst.offset + inst.len - 1) = "Constant"

C14_Witness ==
  /\ pc = "chunk"
  /\ Len(written) = 3
  /\ written[1] = Written("Constant", 16777215)
  /\ written[2] = Written("Add", 0)
  /\ written[3] = Written("Constant", 32768)
  /\ instructions(parser.chunk)[3].operand = 32768
  /\ Len(parser.chunk.code) = 8

\* C15: the constant pool never holds more than MAX_CONSTS = 2^24 - 1 entries:
\* compiling a literal when the pool holds MAX_CONSTS entries leaves the pool
\* and the code unchanged and reports a compile error.
C15_PoolCapped ==
  /\ [](pool_len(parser.chunk) <= MAX_CONSTS)
  /\ [][pool_len(parser.chunk) = MAX_CONSTS =>
          /\ parser'.chunk = parser.chunk
          /\ parser'.had_error]_vars

\* the instruction the run is about to execute pushes without popping
AboutToPush ==
  /\ pc = "run"
  /\ ip < Len(parser.chunk.code)
  /\ get_instruction(parser.chunk, ip).opcode
       \in {"Nil", "True", "False", "Constant"}

\* C16: the operand stack never holds more than MAX_STACK = 1024 values: a
\* push attempted on a stack of 1024 values adds nothing and ends the run
\* with the runtime error "stack overflow".
C16_StackBounded ==
  /\ [](Len(stack) <= MAX_STACK)
  /\ [][(AboutToPush /\ Len(stack) = MAX_STACK) =>
          /\ Len(stack') <= Len(stack)
          /\ pc' = "unwrap"
          /\ result'.kind = "err"
          /\ result'.msg = "stack overflow"]_vars

C16_Witness ==
  /\ pc = "unwrap"
  /\ expr = Bin("+", Lit(1), Lit(1))
  /\ Len(parser.chunk.code) = MAX_STACK + 3
  /\ result.kind = "err"
  /\ result.msg = "stack overflow"

\* C17: while the chunk of a unit that compiled without error is run, every
\* instruction finds on the stack at least as many values as it pops: the
\* assert of Vm::pop never fails, whether the run ends well or in an error.
C17_NeverPopsEmpty ==
  (pc = "run" /\ ip < Len(parser.chunk.code)) =>
    Len(stack) >= pops(get_instruction(parser.chunk, ip).opcode)

C17_Witness ==
  /\ pc = "run"
  /\ expr = Bin("==", <<"nil">>, Bin("<", Lit(1), <<"true">>))
  /\ get_instruction(parser.chunk, ip).opcode = "Less"
  /\ Len(stack) = 3

\* the tokens returned so far, each as its type and its text
Scans ==
  [i \in DOMAIN tokens |->
    IF tokens[i].ok
    THEN <<tokens[i].token.ty, token_text(parser.text, tokens[i].token)>>
    ELSE <<"Err", <<>>>>]

\* C18: digits, and digits '.' digits, are one Number token over the whole
\* text; digits '.' is a Number token over the digits and then a Dot token;
\* '.' digits is a Dot token and then a Number token.
C18_NumberTokens ==
  ScanDone =>
    /\ expr[1] = "int" => Scans = <<<<"Number", expr[2]>>, <<"Eof", <<>>>>>>
    /\ expr[1] = "frac" =>
         Scans = <<<<"Number", expr[2] \o <<".">> \o expr[3]>>, <<"Eof", <<>>>>>>
    /\ expr[1] = "trail" =>
         Scans = <<<<"Number", expr[2]>>, <<"Dot", <<".">>>>, <<"Eof", <<>>>>>>
    /\ expr[1] = "lead" =>
         Scans = <<<<"Dot", <<".">>>>, <<"Number", expr[2]>>, <<"Eof", <<>>>>>>

C18_Witness ==
  /\ ScanDone
  /\ expr = <<"trail", <<"1", "2">>>>
  /\ Len(tokens) = 3
  /\ tokens[2].token.ty = "Dot"

\* C19: a keyword followed by a byte that cannot continue an identifier, or
\* by the end of the text, is that keyword's token over exactly the keyword;
\* a keyword followed by a byte that continues an identifier, and a proper
\* prefix of a keyword, is one Identifier token over the whole word.
C19_KeywordOrIdentifier ==
  tokens # <<>> =>
    /\ (expr[1] = "keyword" /\ expr[4] = <<>>) =>
         Scans[1] = <<expr[2], expr[3]>>
    /\ (expr[1] = "keyword" /\ expr[4] # <<>> /\ expr[4][1] \in OtherBytes) =>
         Scans[1] = <<expr[2], expr[3]>>
    /\ (expr[1] = "keyword" /\ expr[4] # <<>> /\ expr[4][1] \in IdentBytes) =>
         Scans[1] = <<"Identifier", parser.text>>
    /\ expr[1] = "prefix" => Scans[1] = <<"Identifier", parser.text>>
    /\ expr[1] = "word" => Scans[1] = <<"Identifier", parser.text>>

C19_Witness ==
  /\ ScanDone
  /\ expr = <<"keyword", "For", <<"f", "o", "r">>, <<"_">>>>
  /\ Len(tokens) = 2
  /\ tokens[1].token.ty = "Identifier"

\* C20: the line of every token is 1 plus the number of newline bytes in
\* front of the token's end, the newline that ends a comment and the
\* newlines inside a string literal included.
C20_LineCountsNewlines ==
  \A i \in DOMAIN tokens :
    tokens[i].ok =>
      tokens[i].token.line = 1 + Newlines(parser.text, 0, tokens[i].token.end)

\* the index of the first quote at or after index i that no backslash escapes,
\* 0 when there is none
RECURSIVE ClosingQuote(_, _)
ClosingQuote(text, i) ==
  IF i > Len(text) THEN 0
  ELSE IF text[i] = BACKSLASH THEN ClosingQuote(text, i + 2)
  ELSE IF text[i] = QUOTE THEN i
  ELSE ClosingQuote(text, i + 1)

\* result i of scan_token began at a quote
AtQuote(i) ==
  /\ tokens[i].sc.start < Len(parser.text)
  /\ parser.text[tokens[i].sc.start + 1] = QUOTE

\* C21: a string literal is one String token from its opening quote to the
\* next quote that no backslash escapes, both quotes included; when the text
\* ends before such a quote the call fails with "unterminated string" and the
\* next call returns the end-of-input token.
C21_StringToUnescapedQuote ==
  \A i \in DOMAIN tokens :
    AtQuote(i) =>
      IF ClosingQuote(parser.text, tokens[i].sc.start + 2) = 0
      THEN /\ ~tokens[i].ok
           /\ tokens[i].err = "unterminated string"
           /\ i < Len(tokens) =>
                tokens[i + 1].ok /\ tokens[i + 1].token.ty = "Eof"
      ELSE /\ tokens[i].ok
           /\ tokens[i].token.ty = "String"
           /\ tokens[i].token.start = tokens[i].sc.start
           /\ tokens[i].token.end =
                ClosingQuote(parser.text, tokens[i].sc.start + 2)

\* C22: once scan_token has returned the end-of-input token, every later
\* call returns an end-of-input token with the same byte range and line and
\* leaves the scanner as it was.
C22_EofRepeats ==
  \A i, j \in DOMAIN tokens :
    (i < j /\ tokens[i].ok /\ tokens[i].token.ty = "Eof") =>
      /\ tokens[j].ok
      /\ tokens[j].token = tokens[i].token
      /\ tokens[j].sc = tokens[i].sc
      /\ (j = Len(tokens) => parser.scanner = tokens[i].sc)

C22_Witness ==
  /\ pc = "eof"
  /\ parser.text = <<"a", NL, "/", "/">>
  /\ Len(tokens) = 2 + MaxEofCalls
  /\ tokens[2].token.ty = "Eof"
  /\ tokens[Len(tokens)].token = Token("Eof", 4, 4, 2)

\* Vm::run is about to execute an instruction with opcode op
AtOp(op) ==
  /\ pc = "run"
  /\ ip < Len(parser.chunk.code)
  /\ get_instruction(parser.chunk, ip).opcode = op

Top == stack[Len(stack)]

Under == stack[Len(stack) - 1]

NotStep ==
  AtOp("Not") =>
    /\ stack # <<>>
    /\ stack' = Append(Front(stack), IF Top \in {Nil, Boolean(FALSE)}
                                     THEN Boolean(TRUE) ELSE Boolean(FALSE))
    /\ pc' = "run"
    /\ result' = result

NotPrints ==
  (pc = "parsed" /\ expr # NoExpr) =>
    stdout = <<CASE expr \in {Un("!", <<"nil">>), Un("!", <<"false">>)} ->
                      TrueText
                 [] expr \in {Un("!", Lit(0)), Un("!", Lit(1)),
                              Un("!", <<"true">>),
                              Un("!", Un("-", Lit(0)))} -> FalseText
                 [] expr = Un("!", Un("!", <<"nil">>)) -> FalseText>>

\* C23: Not pops exactly one value and pushes true when it is nil or false and
\* false for every other value (numbers, zero included, true, strings), and
\* never ends the run with an error; `!nil` and `!false` print true, `!0`
\* prints false.
C23_NotOnEveryValue == []NotPrints /\ [][NotStep]_vars

C23_Witness ==
  /\ pc = "parsed"
  /\ expr = NoExpr
  /\ parser.chunk.constants = <<Number(0), Object(<<>>)>>
  /\ UnitOp(2) = "Not"
  /\ stdout = <<FalseText>>
  /\ stack = <<Number(0)>>

AddStep ==
  (AtOp("Add") /\ Len(stack) >= 2) =>
    CASE Under.t = "num" /\ Top.t = "num" ->
           /\ stack' = Append(popped(stack, 2), Number(Under.n + Top.n))
           /\ heap' = heap
           /\ pc' = "run"
      [] Under.t = "obj" /\ Top.t = "obj" ->
           /\ stack' = Append(popped(stack, 2), Object(Under.s \o Top.s))
           /\ heap' = Append(heap, Under.s \o Top.s)
           /\ pc' = "run"
      [] OTHER ->
           /\ pc' = "unwrap"
           /\ result'.kind = "err"
           /\ result'.msg = "operands must be numbers or strings"
           /\ heap' = heap

HeapOnlyByAdd ==
  heap' # heap =>
    /\ AtOp("Add")
    /\ Len(stack) >= 2
    /\ Under.t = "obj"
    /\ Top.t = "obj"
    /\ Len(heap') = Len(heap) + 1

\* C24: Add pops two values; two Numbers give their sum, two String objects
\* give the concatenation left then right as a new object with exactly one
\* new entry in the heap registry, any other pair ends the run with
\* "operands must be numbers or strings"; no other instruction changes the
\* heap registry.
C24_AddAndHeap == [][AddStep /\ HeapOnlyByAdd]_vars

C24_Witness ==
  /\ pc = "parsed"
  /\ parser.chunk.constants = <<Object(<<"a">>), Object(<<"b">>)>>
  /\ UnitOp(2) = "Add"
  /\ heap = <<<<"a">>, <<"b">>, <<"a", "b">>>>
  /\ stdout = <<<<QUOTE, "a", "b", QUOTE>>>>
  /\ stack = <<>>

\* the tokens of a text over SrcAlphabet, read off the text: "n" for a run of
\* digits and for a string literal, the byte itself for anything else
RECURSIVE RefToks(_, _)
RefToks(text, i) ==
  IF i > Len(text) THEN <<>>
  ELSE CASE text[i] = NL -> RefToks(text, i + 1)
         [] text[i] = "1" ->
              IF i < Len(text) /\ text[i + 1] = "1" THEN RefToks(text, i + 1)
              ELSE <<"n">> \o RefToks(text, i + 1)
         [] text[i] = QUOTE ->
              IF \E j \in (i + 1)..Len(text) : text[j] = QUOTE
              THEN <<"n">> \o RefToks(text,
                     1 + CHOOSE j \in (i + 1)..Len(text) :
                           /\ text[j] = QUOTE
                           /\ \A k \in (i + 1)..(j - 1) : text[k] # QUOTE)
              ELSE <<QUOTE>>
         [] OTHER -> <<text[i]>> \o RefToks(text, i + 1)

\* one more level of parentheses and of + around the token sequences of E
Grow(E) ==
  E \cup {<<"(">> \o e \o <<")">> : e \in {x \in E : Len(x) + 2 <= MaxSrcLen}}
    \cup {lr[1] \o <<"+">> \o lr[2] :
            lr \in {x \in E \X E : Len(x[1]) + Len(x[2]) + 1 <= MaxSrcLen}}

\* the token sequences of at most MaxSrcLen tokens that are one expression
RECURSIVE ExprToks(_)
ExprToks(k) == IF k = 0 THEN {<<"n">>} ELSE Grow(ExprToks(k - 1))

OneReturnAtEnd(is) ==
  /\ is # <<>>
  /\ \A i \in DOMAIN is : is[i].opcode = "Return" <=> i = Len(is)

\* C25: every chunk that Parser::parse has finished holds exactly one Return
\* instruction, as its last instruction, whether or not compilation
\* succeeded; compilation succeeds only for a text that is one expression
\* with nothing but the end of input after it.
C25_ReturnLastAndWholeText ==
  /\ (pc \notin {"idle", "parse"} /\ ~parser.crashed) =>
       OneReturnAtEnd(instructions(parser.chunk))
  /\ (AfterCompile /\ expr = FreeText /\ ~parser.crashed
        /\ ~parser.had_error) =>
       RefToks(parser.text, 1) \in ExprToks(MaxSrcLen)

C25_Witness ==
  /\ pc = "parsed"
  /\ parser.text = <<"1", NL, "1">>
  /\ parser.had_error
  /\ Len(parser.reports) = 1
  /\ Len(instructions(parser.chunk)) = 2
  /\ run_calls = 0

\* every call of scan_token so far has consumed at least one byte or has
\* returned the end-of-input token
ScanProgress ==
  \A i \in DOMAIN tokens :
    \/ tokens[i].ok /\ tokens[i].token.ty = "Eof"
    \/ tokens[i].sc.cur > (IF i = 1 THEN 0 ELSE tokens[i - 1].sc.cur)

\* C26: compilation of a unit always comes to its end: once Parser::parse has
\* left the compiling of the expression, it has emitted the final Return.
C26_ParseReachesReturn ==
  pc \notin {"idle", "parse"} =>
    /\ ~parser.crashed
    /\ parser.chunk.code # <<>>
    /\ UnitOp(Len(parser.chunk.code) - 1) = "Return"

\* the source line of every number literal of a text, in the order of the
\* text: one more than the number of newlines in front of its first digit
RECURSIVE NumberLines(_, _, _)
NumberLines(text, i, line) ==
  IF i > Len(text) THEN <<>>
  ELSE CASE text[i] = NL -> NumberLines(text, i + 1, line + 1)
         [] text[i] = "1" /\ (i = 1 \/ text[i - 1] # "1") ->
              <<line>> \o NumberLines(text, i + 1, line)
         [] OTHER -> NumberLines(text, i + 1, line)

\* the line recorded for every Constant instruction of a chunk, in the order
\* of the code
RECURSIVE ConstantLines(_, _)
ConstantLines(chunk, is) ==
  IF is = <<>> THEN <<>>
  ELSE (IF is[1].opcode = "Constant"
        THEN <<get_line(chunk, is[1].offset)>> ELSE <<>>)
         \o ConstantLines(chunk, Tail(is))

\* C27: the line recorded in the chunk for the instruction of a literal is
\* the source line of the literal's token, also when the token after it is
\* on a later line.
C27_LiteralLine ==
  (AfterCompile /\ expr = FreeText /\ ~parser.crashed /\ ~parser.had_error) =>
    ConstantLines(parser.chunk, instructions(parser.chunk))
      = NumberLines(parser.text, 1, 1)

ReturnStep == AtOp("Return") => (Len(stack) = 1 /\ stack' = <<>>)

\* C28: every run starts on an empty stack, finds exactly one value on it
\* when it comes to Return, and leaves it empty: after every successful run
\* of a session the stack is as deep as before the run.
C28_RunKeepsDepth ==
  /\ [](pc \in {"idle", "parse", "parsed", "cleared"} => stack = <<>>)
  /\ [][ReturnStep]_vars

C28_Witness ==
  /\ pc = "parsed"
  /\ expr = Un("-", Bin("+", Lit(1), Lit(2)))
  /\ run_calls = 1
  /\ ip = Len(parser.chunk.code)
  /\ stdout = <<<<"-", "3">>>>
  /\ stack = <<>>
  /\ written = <<>>

\* the offsets of the code units that do not follow an Extend code unit
FirstUnits ==
  {k \in 0..(Len(parser.chunk.code) - 1) : k = 0 \/ UnitOp(k - 1) # "Extend"}

RECURSIVE SumLens(_)
SumLens(is) == IF is = <<>> THEN 0 ELSE Head(is).len + SumLens(Tail(is))

Visited(is) == {is[i].offset : i \in DOMAIN is}

DecodedWell(is) ==
  /\ Len(is) = Len(written)
  /\ Visited(is) = FirstUnits
  /\ \A i \in DOMAIN is :
       /\ is[i].offset + is[i].len <= Len(parser.chunk.code)
       /\ is[i].opcode \in PlainOps => (is[i].len = 1 /\ is[i].operand = 0)
  /\ SumLens(is) = Len(parser.chunk.code)

\* C29: in a chunk built by write_op and write_op_arg the last code unit is
\* never an Extend, so decoding never reads past the end of the code; the
\* iterator visits exactly the first code units of the instructions written,
\* gives length 1 and operand 0 for every opcode below Constant, and the
\* lengths it yields add up to the number of code units.
C29_DecodeWellFormed ==
  parser.chunk.code # <<>> =>
    /\ UnitOp(Len(parser.chunk.code) - 1) # "Extend"
    /\ DecodedWell(instructions(parser.chunk))

C29_Witness ==
  /\ pc = "chunk"
  /\ written = <<Written("Constant", 65536), Written("Not", 0),
                 Written("Constant", 257)>>
  /\ Len(parser.chunk.code) = 6
  /\ FirstUnits = {0, 3, 4}

====
